---- MODULE Spec2Model ----
(***************************************************************************)
(* Model of relay-transforms' validate_selection_conflict pass             *)
(* (compiler/crates/relay-transforms/src/validations/                      *)
(* validate_selection_conflict.rs).                                        *)
(*                                                                         *)
(* The pass walks the selections of every operation and every fragment of  *)
(* a Program, flattens each selection scope into a list of fields, and     *)
(* reports two fields with one response key that cannot be merged.  Each    *)
(* operation and each fragment is one task; the tasks share two DashMap    *)
(* caches of Arc'd field lists.  A task is modelled as a stack of frames,  *)
(* one frame per active call; a step of a task is one step of its top      *)
(* frame, and holds at most one access to a shared cache.                  *)
(***************************************************************************)
EXTENDS Naturals, Sequences, FiniteSets, TLC

VARIABLES
    prog,            \* the Program being validated (never changes)
    stack,           \* stack[t]: the call stack of task t
    ret,             \* ret[t]: the DiagnosticsResult of the call that last returned
    status,          \* status[t]: "idle", "running" or "done"
    taskRes,         \* taskRes[t]: the errors task t's closure returned
    heap,            \* the Vec<Field> / Arc<Fields> objects alive, by handle
    fragment_cache,  \* DashMap<StringKey, Arc<Fields>>
    fields_cache,    \* DashMap<PointerAddress, Arc<Fields>>
    out              \* what validate_program returned, once it has

vars == <<prog, stack, ret, status, taskRes, heap, fragment_cache, fields_cache, out>>

----------------------------------------------------------------------------
(* The schema: schema::definitions::Field for each FieldID.                 *)

ObjectType(n) == [some |-> TRUE, kind |-> "Object", name |-> n]
InterfaceType(n) == [some |-> TRUE, kind |-> "Interface", name |-> n]
NoParentType == [some |-> FALSE, kind |-> "", name |-> ""]

Named(n) == [name |-> n, nonnull |-> FALSE]
NonNull(n) == [name |-> n, nonnull |-> TRUE]

SchemaField(id) ==
    CASE id = 1 -> [name |-> "breed", parent_type |-> ObjectType("Dog"), type_ |-> Named("String")]
      [] id = 2 -> [name |-> "color", parent_type |-> ObjectType("Cat"), type_ |-> Named("String")]
      [] id = 3 -> [name |-> "age", parent_type |-> ObjectType("Cat"), type_ |-> Named("Int")]
      [] id = 4 -> [name |-> "name", parent_type |-> InterfaceType("Pet"), type_ |-> Named("String")]
      [] id = 5 -> [name |-> "name", parent_type |-> ObjectType("Dog"), type_ |-> NonNull("String")]
      [] id = 6 -> [name |-> "__typename", parent_type |-> NoParentType, type_ |-> NonNull("String")]
      [] id = 7 -> [name |-> "owner", parent_type |-> ObjectType("Dog"), type_ |-> Named("User")]
      [] id = 8 -> [name |-> "owner", parent_type |-> ObjectType("Cat"), type_ |-> Named("User")]
      [] id = 9 -> [name |-> "friend", parent_type |-> ObjectType("Dog"), type_ |-> Named("Pet")]
      [] id = 10 -> [name |-> "friend", parent_type |-> InterfaceType("Pet"), type_ |-> Named("Pet")]
      [] OTHER -> [name |-> "id", parent_type |-> ObjectType("User"), type_ |-> NonNull("ID")]

\* SDLSchema::get_type_string
TypeString(ty) == IF ty.nonnull THEN <<ty.name, "!">> ELSE <<ty.name>>

----------------------------------------------------------------------------
(* The IR: graphql_ir::Selection.  alias = "" is Option::None.              *)

ScalarField(alias, def, loc) ==
    [kind |-> "ScalarField", alias |-> alias, def |-> def, loc |-> loc,
     sels |-> <<>>, frag |-> 0]
LinkedField(alias, def, loc, sels) ==
    [kind |-> "LinkedField", alias |-> alias, def |-> def, loc |-> loc,
     sels |-> sels, frag |-> 0]
Condition(sels) ==
    [kind |-> "Condition", alias |-> "", def |-> 0, loc |-> 0, sels |-> sels, frag |-> 0]
InlineFragment(sels) ==
    [kind |-> "InlineFragment", alias |-> "", def |-> 0, loc |-> 0, sels |-> sels,
     frag |-> 0]
FragmentSpread(f) ==
    [kind |-> "FragmentSpread", alias |-> "", def |-> 0, loc |-> 0, sels |-> <<>>,
     frag |-> f]

Program(ops, frags) == [operations |-> ops, fragments |-> frags]

----------------------------------------------------------------------------
(* A node of the IR is named by its place: <<r, i1, ..., in>> is selection  *)
(* in of ... of selection i1 of root r, where roots 1..Len(operations) are  *)
(* the operations and the roots after them the fragments.  The place is the *)
(* node's address (PointerAddress); its value is the record found there.    *)

NumOps(P) == Len(P.operations)
NumFrags(P) == Len(P.fragments)
FragRoot(P, f) == NumOps(P) + f

RootSelections(P, r) ==
    IF r <= NumOps(P) THEN P.operations[r] ELSE P.fragments[r - NumOps(P)]

RECURSIVE NodeAt(_, _)
NodeAt(P, p) ==
    IF Len(p) = 2
    THEN RootSelections(P, p[1])[p[2]]
    ELSE NodeAt(P, SubSeq(p, 1, Len(p) - 1)).sels[p[Len(p)]]

\* the selection list whose owner is at p (a root <<r>> or a node)
SelectionsAt(P, p) == IF Len(p) = 1 THEN RootSelections(P, p[1]) ELSE NodeAt(P, p).sels

Node(p) == NodeAt(prog, p)
Selections(p) == SelectionsAt(prog, p)

\* Field::get_field_definition (of the node a Field refers to)
get_field_definition(n) == SchemaField(n.def)

\* Field::get_response_key: alias_or_name
get_response_key(n) == IF n.alias # "" THEN n.alias ELSE get_field_definition(n).name

\* Field::loc
loc(n) == n.loc

\* the variant of enum Field
IsLinked(n) == n.kind = "LinkedField"

\* #[derive(PartialEq)] on Field: the nodes are compared by value, not by address
\* a comparison that never finds two fields equal
FieldNeverEq(a, b) == FALSE
FieldEq(a, b) == a = b

----------------------------------------------------------------------------
(* Diagnostics.                                                             *)

\* the diagnostic with its two locations exchanged
AmbiguousFieldAliasSwapped(key, l, r, at, other) ==
    [kind |-> "AmbiguousFieldAlias", response_key |-> key,
     l_name |-> l.name, r_name |-> r.name,
     l_type_string |-> <<>>, r_type_string |-> <<>>,
     location |-> other, annotation |-> at]

AmbiguousFieldAlias(key, l, r, at, other) ==
    [kind |-> "AmbiguousFieldAlias", response_key |-> key,
     l_name |-> l.name, r_name |-> r.name,
     l_type_string |-> <<>>, r_type_string |-> <<>>,
     location |-> at, annotation |-> other]

AmbiguousFieldType(key, l, r, at, other) ==
    [kind |-> "AmbiguousFieldType", response_key |-> key,
     l_name |-> l.name, r_name |-> r.name,
     l_type_string |-> TypeString(l.type_), r_type_string |-> TypeString(r.type_),
     location |-> at, annotation |-> other]

\* DiagnosticsResult<T>: Ok(val) has no errors; Err(errs) has at least one
Ok(v) == [ok |-> TRUE, val |-> v, errs |-> <<>>]
Err(e) == [ok |-> FALSE, val |-> <<>>, errs |-> e]

\* errors::validate_map, validate!: Ok(()) when nothing was collected
Collected(e) == IF e = <<>> THEN Ok(<<>>) ELSE Err(e)

----------------------------------------------------------------------------
(* The comparison of a candidate `field` with an `existing` entry of the    *)
(* same response key (validate_and_insert_field_selection, the loop body).  *)

\* an exclusivity test that looks at the flag only
parent_exclusive_only(parent_exclusive, existing, field) == parent_exclusive

\* the closure is_parent_fields_mutually_exclusive
is_parent_fields_mutually_exclusive(parent_exclusive, existing, field) ==
    LET l_definition == get_field_definition(existing)
        r_definition == get_field_definition(field)
    IN  \/ parent_exclusive
        \/ /\ l_definition.parent_type # r_definition.parent_type
           /\ l_definition.parent_type.some /\ l_definition.parent_type.kind = "Object"
           /\ r_definition.parent_type.some /\ r_definition.parent_type.kind = "Object"

\* (Field::LinkedField(l), Field::LinkedField(r)): what is pushed before the
\* child lists are resolved
LinkedPairErrors(fields_mutually_exclusive, existing, field) ==
    LET l_definition == get_field_definition(existing)
        r_definition == get_field_definition(field)
    IN  IF ~fields_mutually_exclusive /\ l_definition.name # r_definition.name
        THEN <<AmbiguousFieldAlias(get_response_key(field), l_definition, r_definition,
                                   loc(existing), loc(field))>>
        ELSE <<>>

\* a scalar arm that goes on to the result types whenever no alias error is due
ScalarPairErrorsTypesAlways(parent_exclusive, existing, field) ==
    LET l_definition == get_field_definition(existing)
        r_definition == get_field_definition(field)
    IN  IF /\ ~is_parent_fields_mutually_exclusive(parent_exclusive, existing, field)
           /\ l_definition.name # r_definition.name
        THEN <<AmbiguousFieldAlias(get_response_key(field), l_definition,
                                   r_definition, loc(existing), loc(field))>>
        ELSE IF l_definition.type_ # r_definition.type_
             THEN <<AmbiguousFieldType(get_response_key(field), l_definition,
                                       r_definition, loc(existing), loc(field))>>
             ELSE <<>>

\* (Field::ScalarFeild(l), Field::ScalarFeild(r))
ScalarPairErrors(parent_exclusive, existing, field) ==
    LET l_definition == get_field_definition(existing)
        r_definition == get_field_definition(field)
    IN  IF ~is_parent_fields_mutually_exclusive(parent_exclusive, existing, field)
        THEN IF l_definition.name # r_definition.name
             THEN <<AmbiguousFieldAlias(get_response_key(field), l_definition,
                                        r_definition, loc(existing), loc(field))>>
             ELSE <<>>
        ELSE IF l_definition.type_ # r_definition.type_
             THEN <<AmbiguousFieldType(get_response_key(field), l_definition,
                                       r_definition, loc(existing), loc(field))>>
             ELSE <<>>

\* a kind check that is waived for fields of two different object types
MixedPairErrorsUnlessExclusive(existing, field) ==
    IF is_parent_fields_mutually_exclusive(FALSE, existing, field)
    THEN <<>>
    ELSE <<AmbiguousFieldType(get_response_key(field), get_field_definition(existing),
                              get_field_definition(field), loc(existing), loc(field))>>

\* (existing_field, _): one is linked, the other scalar
MixedPairErrors(existing, field) ==
    <<AmbiguousFieldType(get_response_key(field), get_field_definition(existing),
                         get_field_definition(field), loc(existing), loc(field))>>

\* the index of the next entry of `fields` (nodes) at or after i with the
\* candidate's response key (the filter of the loop), 0 when there is none
NextSameKey(fields, i, field) ==
    LET S == {j \in i..Len(fields) : get_response_key(fields[j]) = get_response_key(field)}
    IN  IF S = {} THEN 0 ELSE CHOOSE j \in S : \A k \in S : j <= k

----------------------------------------------------------------------------
(* Tasks, frames and the heap.                                              *)

\* par_try_map over program.operations, then over program.fragments: task t is
\* operation t, or fragment t - NumOps
\* a driver that maps over the operations only
operations_only_tasks(P) == 1..NumOps(P)
validate_program_tasks(P) == 1..(NumOps(P) + NumFrags(P))
Tasks == validate_program_tasks(prog)
IsOperationTask(t) == t <= NumOps(prog)

NoH == <<>>

BaseFrame ==
    [fn |-> "", pc |-> "", p |-> <<>>, i |-> 0, acc |-> NoH, tgt |-> NoH,
     right |-> <<>>, pe |-> FALSE, ex |-> FALSE, errs |-> <<>>, lh |-> NoH, rh |-> NoH,
     guard |-> ""]

Top(t) == stack[t][Len(stack[t])]
Below(t) == SubSeq(stack[t], 1, Len(stack[t]) - 1)
At(t, fn, pcs) ==
    /\ status[t] = "running"
    /\ stack[t] # <<>>
    /\ Top(t).fn = fn
    /\ Top(t).pc \in pcs

\* the frames of all stacks, as <<task, depth>>
Slots(stk) == UNION {{<<t, d>> : d \in 1..Len(stk[t])} : t \in DOMAIN stk}

\* the owners of handle h: a cache entry, a frame's Vec (acc) or Arc (lh, rh),
\* a returned value not yet taken
HoldersIn(h, stk, rt, fc, lc) ==
    {<<"fragment_cache", f>> : f \in {x \in DOMAIN fc : fc[x] = h}}
    \cup {<<"fields_cache", n>> : n \in {x \in DOMAIN lc : lc[x] = h}}
    \cup {<<"ret", t>> : t \in {x \in DOMAIN rt : rt[x].val = h}}
    \cup {<<"acc", s>> : s \in {x \in Slots(stk) : stk[x[1]][x[2]].acc = h}}
    \cup {<<"lh", s>> : s \in {x \in Slots(stk) : stk[x[1]][x[2]].lh = h}}
    \cup {<<"rh", s>> : s \in {x \in Slots(stk) : stk[x[1]][x[2]].rh = h}}

\* Arc::strong_count
strong_count(h) == Cardinality(HoldersIn(h, stack, ret, fragment_cache, fields_cache))

\* the handles that have an owner
Owned(stk, rt, fc, lc) ==
    {fc[f] : f \in DOMAIN fc} \cup {lc[n] : n \in DOMAIN lc}
    \cup {rt[t].val : t \in DOMAIN rt}
    \cup UNION {{stk[s[1]][s[2]].acc, stk[s[1]][s[2]].lh, stk[s[1]][s[2]].rh} :
                s \in Slots(stk)}

\* an object is dropped with its last owner
Collect(hp, stk, rt, fc, lc) ==
    [h \in DOMAIN hp \cap Owned(stk, rt, fc, lc) |-> hp[h]]

\* Vec::new / Arc::new / a clone: a handle of task t not in use
FreshHandle(t) ==
    LET used == {h[2] : h \in {x \in DOMAIN heap : x[1] = t}}
    IN  <<t, CHOOSE k \in 1..(Cardinality(used) + 1) :
                 k \notin used /\ \A j \in 1..(k - 1) : j \in used>>

Commit(t, stk, r, hp, fc, lc) ==
    /\ stack' = [stack EXCEPT ![t] = stk]
    /\ ret' = [ret EXCEPT ![t] = r]
    /\ fragment_cache' = fc
    /\ fields_cache' = lc
    /\ heap' = Collect(hp, stack', ret', fc, lc)
    /\ UNCHANGED <<prog, status, taskRes, out>>

\* a step that touches no cache
Local(t, stk, r, hp) == Commit(t, stk, r, hp, fragment_cache, fields_cache)

\* the frames of the calls
validate_selections_frame(p, h) ==
    [BaseFrame EXCEPT !.fn = "validate_selections", !.pc = "loop", !.p = p, !.i = 1,
                      !.acc = h]
validate_selection_frame(p, tgt) ==
    [BaseFrame EXCEPT !.fn = "validate_selection", !.pc = "start", !.p = p, !.tgt = tgt]
validate_and_collect_fragment_frame(f) ==
    [BaseFrame EXCEPT !.fn = "validate_and_collect_fragment", !.pc = "get", !.i = f]
validate_linked_field_selections_frame(p) ==
    [BaseFrame EXCEPT !.fn = "validate_linked_field_selections", !.pc = "get", !.p = p]
validate_and_merge_fields_frame(tgt, right, pe) ==
    [BaseFrame EXCEPT !.fn = "validate_and_merge_fields", !.pc = "loop", !.tgt = tgt,
                      !.right = right, !.pe = pe, !.i = 1]
validate_and_insert_field_selection_frame(tgt, field, pe) ==
    [BaseFrame EXCEPT !.fn = "validate_and_insert_field_selection", !.pc = "scan",
                      !.tgt = tgt, !.p = field, !.pe = pe, !.i = 1]

NoRet == Ok(NoH)

\* some call holds a lookup guard (dashmap Ref) of cache c: the read lock of
\* the entry's shard, which an insert into c waits for.  The keys of a cache
\* are taken to share one shard.
GuardHeld(c) == \E s \in Slots(stack) : stack[s[1]][s[2]].guard = c

\* PointerAddress::new(field): the key of fields_cache is the node's address
\* a key that tells linked fields apart by their definition only
definition_key(p) == <<NodeAt(prog, p).def>>
PointerAddress(p) == p

\* DashMap::insert: the entry for k is set, an earlier one replaced
Put(m, k, v) == [x \in DOMAIN m \cup {k} |-> IF x = k THEN v ELSE m[x]]

\* Arc::make_mut clones the list unless this handle is the only one
\* a make_mut that always hands out the shared list itself
make_mut_in_place(h) == FALSE
make_mut_clones(h) == strong_count(h) # 1

----------------------------------------------------------------------------
(* validate_program: the driver starts one task per operation and fragment. *)

StartTask(t) ==
    /\ status[t] = "idle"
    /\ status' = [status EXCEPT ![t] = "running"]
    /\ stack' = [stack EXCEPT ![t] =
                    IF IsOperationTask(t)
                    THEN <<[BaseFrame EXCEPT !.fn = "validate_operation", !.pc = "call",
                                             !.p = <<t>>]>>
                    ELSE <<validate_and_collect_fragment_frame(t - NumOps(prog))>>]
    /\ UNCHANGED <<prog, ret, taskRes, heap, fragment_cache, fields_cache, out>>

(* validate_operation *)

ValidateOperationCall(t) ==
    /\ At(t, "validate_operation", {"call"})
    /\ LET h == FreshHandle(t)
       IN  Local(t, Below(t) \o <<[Top(t) EXCEPT !.pc = "ret"],
                                  validate_selections_frame(Top(t).p, h)>>,
                 NoRet, heap @@ (h :> <<>>))

ValidateOperationReturn(t) ==
    /\ At(t, "validate_operation", {"ret"})
    /\ Local(t, Below(t), IF ret[t].ok THEN NoRet ELSE Err(ret[t].errs), heap)

(* validate_selections: validate_map over the selections, then Ok(fields) *)

SelectionsErrs(t) ==
    IF Top(t).pc = "ret" THEN Top(t).errs \o ret[t].errs ELSE Top(t).errs
SelectionsIndex(t) == IF Top(t).pc = "ret" THEN Top(t).i + 1 ELSE Top(t).i

ValidateSelectionsNext(t) ==
    /\ At(t, "validate_selections", {"loop", "ret"})
    /\ SelectionsIndex(t) <= Len(Selections(Top(t).p))
    /\ Local(t, Below(t) \o
                <<[Top(t) EXCEPT !.pc = "ret", !.i = SelectionsIndex(t),
                                 !.errs = SelectionsErrs(t)],
                  validate_selection_frame(Top(t).p \o <<SelectionsIndex(t)>>, Top(t).acc)>>,
             NoRet, heap)

\* a validate_map that returns at the first selection with errors
ValidateSelectionsReturnAtFirstError(t) ==
    /\ At(t, "validate_selections", {"loop", "ret"})
    /\ SelectionsIndex(t) > Len(Selections(Top(t).p)) \/ SelectionsErrs(t) # <<>>
    /\ Local(t, Below(t),
             IF SelectionsErrs(t) = <<>> THEN Ok(Top(t).acc) ELSE Err(SelectionsErrs(t)),
             heap)

ValidateSelectionsReturn(t) ==
    /\ At(t, "validate_selections", {"loop", "ret"})
    /\ SelectionsIndex(t) > Len(Selections(Top(t).p))
    /\ Local(t, Below(t),
             IF SelectionsErrs(t) = <<>> THEN Ok(Top(t).acc) ELSE Err(SelectionsErrs(t)),
             heap)

(* validate_selection *)

\* a linked field is inserted without its own selections being flattened
ValidateSelectionLinkedUnchecked(t) ==
    /\ At(t, "validate_selection", {"start"})
    /\ Node(Top(t).p).kind = "LinkedField"
    /\ Local(t, Below(t) \o
                <<validate_and_insert_field_selection_frame(Top(t).tgt, Top(t).p, FALSE)>>,
             NoRet, heap)

ValidateSelectionLinked(t) ==
    /\ At(t, "validate_selection", {"start"})
    /\ Node(Top(t).p).kind = "LinkedField"
    /\ Local(t, Below(t) \o <<[Top(t) EXCEPT !.pc = "after_linked"],
                              validate_linked_field_selections_frame(Top(t).p)>>,
             NoRet, heap)

\* the ? after validate_linked_field_selections, then the insertion
ValidateSelectionLinkedInsert(t) ==
    /\ At(t, "validate_selection", {"after_linked"})
    /\ IF ret[t].ok
       THEN Local(t, Below(t) \o
                     <<validate_and_insert_field_selection_frame(Top(t).tgt, Top(t).p, FALSE)>>,
                  NoRet, heap)
       ELSE Local(t, Below(t), Err(ret[t].errs), heap)

ValidateSelectionScalar(t) ==
    /\ At(t, "validate_selection", {"start"})
    /\ Node(Top(t).p).kind = "ScalarField"
    /\ Local(t, Below(t) \o
                <<validate_and_insert_field_selection_frame(Top(t).tgt, Top(t).p, FALSE)>>,
             NoRet, heap)

ValidateSelectionNested(t) ==
    /\ At(t, "validate_selection", {"start"})
    /\ Node(Top(t).p).kind \in {"Condition", "InlineFragment"}
    /\ LET h == FreshHandle(t)
       IN  Local(t, Below(t) \o <<[Top(t) EXCEPT !.pc = "after_flatten"],
                                  validate_selections_frame(Top(t).p, h)>>,
                 NoRet, heap @@ (h :> <<>>))

\* the ? after validate_selections, then the merge of new_fields (moved)
ValidateSelectionNestedMerge(t) ==
    /\ At(t, "validate_selection", {"after_flatten"})
    /\ IF ret[t].ok
       THEN Local(t, Below(t) \o
                     <<validate_and_merge_fields_frame(Top(t).tgt, heap[ret[t].val], FALSE)>>,
                  NoRet, heap)
       ELSE Local(t, Below(t), Err(ret[t].errs), heap)

ValidateSelectionSpread(t) ==
    /\ At(t, "validate_selection", {"start"})
    /\ Node(Top(t).p).kind = "FragmentSpread"
    /\ Local(t, Below(t) \o <<[Top(t) EXCEPT !.pc = "after_fragment"],
                              validate_and_collect_fragment_frame(Node(Top(t).p).frag)>>,
             NoRet, heap)

\* the ? after validate_and_collect_fragment, then the merge of new_fields.to_vec()
ValidateSelectionSpreadMerge(t) ==
    /\ At(t, "validate_selection", {"after_fragment"})
    /\ IF ret[t].ok
       THEN Local(t, Below(t) \o
                     <<[Top(t) EXCEPT !.pc = "after_merge", !.lh = ret[t].val],
                       validate_and_merge_fields_frame(Top(t).tgt, heap[ret[t].val], FALSE)>>,
                  NoRet, heap)
       ELSE Local(t, Below(t), Err(ret[t].errs), heap)

\* the merge returned: new_fields is dropped, the merge's result is the result
ValidateSelectionSpreadReturn(t) ==
    /\ At(t, "validate_selection", {"after_merge"})
    /\ Local(t, Below(t), ret[t], heap)

(* validate_and_collect_fragment *)

\* a lookup that ignores the entry it found and flattens the fragment again
CollectFragmentHitFlattensAgain(t) ==
    /\ At(t, "validate_and_collect_fragment", {"get"})
    /\ Top(t).i \in DOMAIN fragment_cache
    /\ LET h == FreshHandle(t)
       IN  Local(t, Below(t) \o
                    <<[Top(t) EXCEPT !.pc = "computed"],
                      validate_selections_frame(<<FragRoot(prog, Top(t).i)>>, h)>>,
                 NoRet, heap @@ (h :> <<>>))

\* fragment_cache.get returned Some(cached): the guard `cached` is held
CollectFragmentHit(t) ==
    /\ At(t, "validate_and_collect_fragment", {"get"})
    /\ Top(t).i \in DOMAIN fragment_cache
    /\ Local(t, Below(t) \o <<[Top(t) EXCEPT !.pc = "hit", !.guard = "fragment_cache"]>>,
             NoRet, heap)

\* return Ok(Arc::clone(&cached)); the guard is dropped
CollectFragmentHitReturn(t) ==
    /\ At(t, "validate_and_collect_fragment", {"hit"})
    /\ Local(t, Below(t), Ok(fragment_cache[Top(t).i]), heap)

\* a miss that keeps a lookup guard alive while the fragment is flattened
CollectFragmentMissHoldingGuard(t) ==
    /\ At(t, "validate_and_collect_fragment", {"get"})
    /\ Top(t).i \notin DOMAIN fragment_cache
    /\ LET h == FreshHandle(t)
       IN  Local(t, Below(t) \o
                    <<[Top(t) EXCEPT !.pc = "computed", !.guard = "fragment_cache"],
                      validate_selections_frame(<<FragRoot(prog, Top(t).i)>>, h)>>,
                 NoRet, heap @@ (h :> <<>>))

CollectFragmentMiss(t) ==
    /\ At(t, "validate_and_collect_fragment", {"get"})
    /\ Top(t).i \notin DOMAIN fragment_cache
    /\ LET h == FreshHandle(t)
       IN  Local(t, Below(t) \o
                    <<[Top(t) EXCEPT !.pc = "computed"],
                      validate_selections_frame(<<FragRoot(prog, Top(t).i)>>, h)>>,
                 NoRet, heap @@ (h :> <<>>))

\* the computed list is returned but never stored
CollectFragmentNoInsert(t) ==
    /\ At(t, "validate_and_collect_fragment", {"computed"})
    /\ Local(t, Below(t), IF ret[t].ok THEN ret[t] ELSE Err(ret[t].errs), heap)

\* the ? after validate_selections, then fragment_cache.insert
CollectFragmentInsert(t) ==
    /\ At(t, "validate_and_collect_fragment", {"computed"})
    /\ ret[t].ok => ~GuardHeld("fragment_cache")
    /\ IF ret[t].ok
       THEN Commit(t, Below(t), ret[t], heap,
                   Put(fragment_cache, Top(t).i, ret[t].val), fields_cache)
       ELSE Local(t, Below(t), Err(ret[t].errs), heap)

(* validate_linked_field_selections *)

\* fields_cache.get returned Some(fields): the guard `fields` is held
LinkedFieldHit(t) ==
    /\ At(t, "validate_linked_field_selections", {"get"})
    /\ PointerAddress(Top(t).p) \in DOMAIN fields_cache
    /\ Local(t, Below(t) \o <<[Top(t) EXCEPT !.pc = "hit", !.guard = "fields_cache"]>>,
             NoRet, heap)

\* a hit that returns a new empty list in place of the stored one
LinkedFieldHitReturnsEmpty(t) ==
    /\ At(t, "validate_linked_field_selections", {"hit"})
    /\ LET h == FreshHandle(t)
       IN  Local(t, Below(t), Ok(h), heap @@ (h :> <<>>))

\* return Ok(Arc::clone(&fields)); the guard is dropped
LinkedFieldHitReturn(t) ==
    /\ At(t, "validate_linked_field_selections", {"hit"})
    /\ Local(t, Below(t), Ok(fields_cache[PointerAddress(Top(t).p)]), heap)

LinkedFieldMiss(t) ==
    /\ At(t, "validate_linked_field_selections", {"get"})
    /\ PointerAddress(Top(t).p) \notin DOMAIN fields_cache
    /\ LET h == FreshHandle(t)
       IN  Local(t, Below(t) \o <<[Top(t) EXCEPT !.pc = "computed"],
                                  validate_selections_frame(Top(t).p, h)>>,
                 NoRet, heap @@ (h :> <<>>))

\* an insert that is made also when validate_selections failed, with an
\* empty list
LinkedFieldInsertAlways(t) ==
    /\ At(t, "validate_linked_field_selections", {"computed"})
    /\ ~GuardHeld("fields_cache")
    /\ LET h == IF ret[t].ok THEN ret[t].val ELSE FreshHandle(t)
           hp == IF ret[t].ok THEN heap ELSE heap @@ (h :> <<>>)
       IN  Commit(t, Below(t), IF ret[t].ok THEN ret[t] ELSE Err(ret[t].errs), hp,
                  fragment_cache, Put(fields_cache, PointerAddress(Top(t).p), h))

\* the ? after validate_selections, then fields_cache.insert
LinkedFieldInsert(t) ==
    /\ At(t, "validate_linked_field_selections", {"computed"})
    /\ ret[t].ok => ~GuardHeld("fields_cache")
    /\ IF ret[t].ok
       THEN Commit(t, Below(t), ret[t], heap, fragment_cache,
                   Put(fields_cache, PointerAddress(Top(t).p), ret[t].val))
       ELSE Local(t, Below(t), Err(ret[t].errs), heap)

(* validate_and_merge_fields: validate_map over right *)

MergeErrs(t) == IF Top(t).pc = "ret" THEN Top(t).errs \o ret[t].errs ELSE Top(t).errs
MergeIndex(t) == IF Top(t).pc = "ret" THEN Top(t).i + 1 ELSE Top(t).i

MergeFieldsNext(t) ==
    /\ At(t, "validate_and_merge_fields", {"loop", "ret"})
    /\ MergeIndex(t) <= Len(Top(t).right)
    /\ Local(t, Below(t) \o
                <<[Top(t) EXCEPT !.pc = "ret", !.i = MergeIndex(t), !.errs = MergeErrs(t)],
                  validate_and_insert_field_selection_frame(
                      Top(t).tgt, Top(t).right[MergeIndex(t)], Top(t).pe)>>,
             NoRet, heap)

MergeFieldsReturn(t) ==
    /\ At(t, "validate_and_merge_fields", {"loop", "ret"})
    /\ MergeIndex(t) > Len(Top(t).right)
    /\ Local(t, Below(t), Collected(MergeErrs(t)), heap)

(* validate_and_insert_field_selection *)

\* the entry the loop is at: its index in fields, 0 after the last one
Nodes(fields) == [j \in 1..Len(fields) |-> Node(fields[j])]
ScanIndex(t) == NextSameKey(Nodes(heap[Top(t).tgt]), Top(t).i, Node(Top(t).p))
ExistingField(t) == heap[Top(t).tgt][ScanIndex(t)]
Existing(t) == Node(ExistingField(t))
Candidate(t) == Node(Top(t).p)

\* an end of the loop that pushes the candidate whatever was collected
InsertFinishAlwaysPushes(t) ==
    /\ At(t, "validate_and_insert_field_selection", {"scan"})
    /\ ScanIndex(t) = 0
    /\ Local(t, Below(t), Collected(Top(t).errs),
             [heap EXCEPT ![Top(t).tgt] = Append(@, Top(t).p)])

\* the loop ended: the candidate is pushed when no error was collected
InsertFinish(t) ==
    /\ At(t, "validate_and_insert_field_selection", {"scan"})
    /\ ScanIndex(t) = 0
    /\ IF Top(t).errs = <<>>
       THEN Local(t, Below(t), NoRet,
                  [heap EXCEPT ![Top(t).tgt] = Append(@, Top(t).p)])
       ELSE Local(t, Below(t), Err(Top(t).errs), heap)

\* a fast path that returns Ok(()) whatever was collected
InsertIdenticalDiscards(t) ==
    /\ At(t, "validate_and_insert_field_selection", {"scan"})
    /\ ScanIndex(t) # 0
    /\ FieldEq(Candidate(t), Existing(t))
    /\ Local(t, Below(t), NoRet, heap)

\* &field == existing_field: return at once, with what was collected so far
InsertIdentical(t) ==
    /\ At(t, "validate_and_insert_field_selection", {"scan"})
    /\ ScanIndex(t) # 0
    /\ FieldEq(Candidate(t), Existing(t))
    /\ Local(t, Below(t), Collected(Top(t).errs), heap)

\* (LinkedField, LinkedField): the alias check, then resolve the existing field's list
InsertLinkedPair(t) ==
    /\ At(t, "validate_and_insert_field_selection", {"scan"})
    /\ ScanIndex(t) # 0
    /\ ~FieldEq(Candidate(t), Existing(t))
    /\ IsLinked(Existing(t)) /\ IsLinked(Candidate(t))
    /\ LET ex == is_parent_fields_mutually_exclusive(Top(t).pe, Existing(t), Candidate(t))
       IN  Local(t, Below(t) \o
                    <<[Top(t) EXCEPT !.pc = "after_l", !.i = ScanIndex(t), !.ex = ex,
                                     !.errs = @ \o LinkedPairErrors(ex, Existing(t), Candidate(t))],
                      validate_linked_field_selections_frame(ExistingField(t))>>,
                 NoRet, heap)

\* l_fields = ...?; then resolve the candidate's list
InsertResolveRight(t) ==
    /\ At(t, "validate_and_insert_field_selection", {"after_l"})
    /\ IF ret[t].ok
       THEN Local(t, Below(t) \o
                     <<[Top(t) EXCEPT !.pc = "after_r", !.lh = ret[t].val],
                       validate_linked_field_selections_frame(Top(t).p)>>,
                  NoRet, heap)
       ELSE Local(t, Below(t), Err(ret[t].errs), heap)

\* a merge of the child lists that starts over with parent_exclusive false
InsertMergeChildrenNotExclusive(t) ==
    /\ At(t, "validate_and_insert_field_selection", {"after_r"})
    /\ IF ret[t].ok
       THEN LET clone == make_mut_clones(Top(t).lh)
                l == IF clone THEN FreshHandle(t) ELSE Top(t).lh
                hp == IF clone THEN heap @@ (l :> heap[Top(t).lh]) ELSE heap
            IN  Local(t, Below(t) \o
                         <<[Top(t) EXCEPT !.pc = "after_merge", !.lh = l, !.rh = ret[t].val],
                           validate_and_merge_fields_frame(l, heap[ret[t].val], FALSE)>>,
                      NoRet, hp)
       ELSE Local(t, Below(t), Err(ret[t].errs), heap)

\* r_fields = ...?; then merge r_fields.to_vec() into Arc::make_mut(&mut l_fields)
InsertMergeChildren(t) ==
    /\ At(t, "validate_and_insert_field_selection", {"after_r"})
    /\ IF ret[t].ok
       THEN LET clone == make_mut_clones(Top(t).lh)
                l == IF clone THEN FreshHandle(t) ELSE Top(t).lh
                hp == IF clone THEN heap @@ (l :> heap[Top(t).lh]) ELSE heap
            IN  Local(t, Below(t) \o
                         <<[Top(t) EXCEPT !.pc = "after_merge", !.lh = l, !.rh = ret[t].val],
                           validate_and_merge_fields_frame(l, heap[ret[t].val], Top(t).ex)>>,
                      NoRet, hp)
       ELSE Local(t, Below(t), Err(ret[t].errs), heap)

\* the errors of the nested merge are dropped with the lists
InsertMergedDropsErrors(t) ==
    /\ At(t, "validate_and_insert_field_selection", {"after_merge"})
    /\ Local(t, Below(t) \o
                <<[Top(t) EXCEPT !.pc = "scan", !.i = @ + 1,
                                 !.lh = NoH, !.rh = NoH, !.ex = FALSE]>>,
             NoRet, heap)

\* errors.extend(errs); l_fields and r_fields are dropped; on to the next entry
InsertMerged(t) ==
    /\ At(t, "validate_and_insert_field_selection", {"after_merge"})
    /\ Local(t, Below(t) \o
                <<[Top(t) EXCEPT !.pc = "scan", !.i = @ + 1, !.errs = @ \o ret[t].errs,
                                 !.lh = NoH, !.rh = NoH, !.ex = FALSE]>>,
             NoRet, heap)

\* (ScalarFeild, ScalarFeild)
InsertScalarPair(t) ==
    /\ At(t, "validate_and_insert_field_selection", {"scan"})
    /\ ScanIndex(t) # 0
    /\ ~FieldEq(Candidate(t), Existing(t))
    /\ ~IsLinked(Existing(t)) /\ ~IsLinked(Candidate(t))
    /\ Local(t, Below(t) \o
                <<[Top(t) EXCEPT !.i = ScanIndex(t) + 1,
                                 !.errs = @ \o ScalarPairErrors(Top(t).pe, Existing(t), Candidate(t))]>>,
             NoRet, heap)

\* (existing_field, _): a linked field and a scalar field
InsertMixedPair(t) ==
    /\ At(t, "validate_and_insert_field_selection", {"scan"})
    /\ ScanIndex(t) # 0
    /\ ~FieldEq(Candidate(t), Existing(t))
    /\ IsLinked(Existing(t)) # IsLinked(Candidate(t))
    /\ Local(t, Below(t) \o
                <<[Top(t) EXCEPT !.i = ScanIndex(t) + 1,
                                 !.errs = @ \o MixedPairErrors(Existing(t), Candidate(t))]>>,
             NoRet, heap)

(* the end of a task, and of validate_program *)

\* the closure given to par_try_map returned
TaskDone(t) ==
    /\ status[t] = "running"
    /\ stack[t] = <<>>
    /\ status' = [status EXCEPT ![t] = "done"]
    /\ taskRes' = [taskRes EXCEPT ![t] = ret[t].errs]
    /\ ret' = [ret EXCEPT ![t] = NoRet]
    /\ heap' = Collect(heap, stack, ret', fragment_cache, fields_cache)
    /\ UNCHANGED <<prog, stack, fragment_cache, fields_cache, out>>

RECURSIVE ConcatUpTo(_, _)
ConcatUpTo(res, n) == IF n = 0 THEN <<>> ELSE ConcatUpTo(res, n - 1) \o res[n]

\* par_try_map and validate!: the errors of every task, in the order of the tasks
validate_collect(res) ==
    LET errors == ConcatUpTo(res, Len(res))
    IN  [returned |-> TRUE, ok |-> errors = <<>>, errs |-> errors]

ValidateProgramReturn ==
    /\ ~out.returned
    /\ \A t \in Tasks : status[t] = "done"
    /\ out' = validate_collect(taskRes)
    /\ UNCHANGED <<prog, stack, ret, status, taskRes, heap, fragment_cache, fields_cache>>

----------------------------------------------------------------------------
(* The same functions with both caches disabled: every fragment and every   *)
(* linked field is flattened again wherever it is resolved.  A list of      *)
(* fields is a list of node values; errs = <<>> is Ok.                      *)

RECURSIVE UncachedSelectionsFrom(_, _, _, _, _)
RECURSIVE UncachedSelection(_, _, _)
RECURSIVE UncachedScan(_, _, _, _, _, _)
RECURSIVE UncachedMergeFrom(_, _, _, _, _, _)

\* validate_selections
UncachedSelections(P, sels) ==
    LET r == UncachedSelectionsFrom(P, sels, 1, <<>>, <<>>)
    IN  IF r.errs = <<>> THEN r ELSE [fields |-> <<>>, errs |-> r.errs]

UncachedSelectionsFrom(P, sels, i, fields, errs) ==
    IF i > Len(sels)
    THEN [fields |-> fields, errs |-> errs]
    ELSE LET r == UncachedSelection(P, fields, sels[i])
         IN  UncachedSelectionsFrom(P, sels, i + 1, r.fields, errs \o r.errs)

\* validate_and_insert_field_selection
UncachedInsert(P, fields, field, pe) == UncachedScan(P, fields, field, pe, 1, <<>>)

\* validate_and_merge_fields
UncachedMerge(P, left, right, pe) == UncachedMergeFrom(P, left, right, pe, 1, <<>>)

UncachedMergeFrom(P, left, right, pe, i, errs) ==
    IF i > Len(right)
    THEN [fields |-> left, errs |-> errs]
    ELSE LET r == UncachedInsert(P, left, right[i], pe)
         IN  UncachedMergeFrom(P, r.fields, right, pe, i + 1, errs \o r.errs)

\* validate_selection
UncachedSelection(P, fields, sel) ==
    IF sel.kind = "ScalarField"
    THEN UncachedInsert(P, fields, sel, FALSE)
    ELSE LET sub == UncachedSelections(P, IF sel.kind = "FragmentSpread"
                                          THEN P.fragments[sel.frag] ELSE sel.sels)
         IN  IF sub.errs # <<>>
             THEN [fields |-> fields, errs |-> sub.errs]
             ELSE IF sel.kind = "LinkedField"
                  THEN UncachedInsert(P, fields, sel, FALSE)
                  ELSE UncachedMerge(P, fields, sub.fields, FALSE)

UncachedScan(P, fields, field, pe, i, errs) ==
    LET j == NextSameKey(fields, i, field)
    IN  IF j = 0
        THEN IF errs = <<>>
             THEN [fields |-> Append(fields, field), errs |-> <<>>]
             ELSE [fields |-> fields, errs |-> errs]
        ELSE IF FieldEq(field, fields[j])
        THEN [fields |-> fields, errs |-> errs]
        ELSE IF IsLinked(fields[j]) /\ IsLinked(field)
        THEN LET ex == is_parent_fields_mutually_exclusive(pe, fields[j], field)
                 l == UncachedSelections(P, fields[j].sels)
                 r == UncachedSelections(P, field.sels)
             IN  IF l.errs # <<>> THEN [fields |-> fields, errs |-> l.errs]
                 ELSE IF r.errs # <<>> THEN [fields |-> fields, errs |-> r.errs]
                 ELSE UncachedScan(P, fields, field, pe, j + 1,
                                   errs \o LinkedPairErrors(ex, fields[j], field)
                                        \o UncachedMerge(P, l.fields, r.fields, ex).errs)
        ELSE IF ~IsLinked(fields[j]) /\ ~IsLinked(field)
        THEN UncachedScan(P, fields, field, pe, j + 1,
                          errs \o ScalarPairErrors(pe, fields[j], field))
        ELSE UncachedScan(P, fields, field, pe, j + 1,
                          errs \o MixedPairErrors(fields[j], field))

\* validate_program: the errors of every operation, then of every fragment
UncachedProgram(P) ==
    validate_collect([r \in 1..(NumOps(P) + NumFrags(P)) |->
                         UncachedSelections(P, RootSelections(P, r)).errs])

----------------------------------------------------------------------------
(* The programs validated.                                                  *)

\* how many of the schema's scalar fields the generated programs select
MaxScalarField == 6
\* how many child lists a generated linked field is given
MaxChildList == 4

ResponseKey == "name"

\* a scalar field with response key "name": by its own name (4, 5) or by alias
ScalarAtom(d, l) ==
    IF SchemaField(d).name = ResponseKey
    THEN ScalarField("", d, l) ELSE ScalarField(ResponseKey, d, l)

\* the children of a linked field at location l: response key "k" or "id"
ChildList(c, l) ==
    CASE c = 1 -> <<ScalarField("k", 1, 10 * l + 1)>>
      [] c = 2 -> <<ScalarField("k", 5, 10 * l + 1)>>
      [] c = 3 -> <<LinkedField("k", 7, 10 * l + 1, <<ScalarField("", 11, 10 * l + 2)>>)>>
      [] c = 4 -> <<ScalarField("", 11, 10 * l + 1)>>
      [] OTHER -> <<ScalarField("k", 1, 10 * l + 1), ScalarField("", 11, 10 * l + 2)>>

LinkedAtom(d, c, l) == LinkedField(ResponseKey, d, l, ChildList(c, l))

ScalarAtoms(l) == {ScalarAtom(d, l) : d \in 1..MaxScalarField}
LinkedAtoms(D, l) == {LinkedAtom(d, c, l) : d \in D, c \in 1..MaxChildList}

Wrap(w, a) ==
    CASE w = 1 -> a
      [] w = 2 -> InlineFragment(<<a>>)
      [] OTHER -> Condition(<<a>>)

\* one operation selecting two fields of one response key (the second may be
\* the first again), each written directly, in an inline fragment or in a condition
ScalarPairPrograms ==
    UNION {{Program(<< <<Wrap(w1, a), Wrap(w2, b)>> >>, <<>>) :
               b \in ScalarAtoms(2) \cup {a}, w1 \in 1..3, w2 \in 1..3} :
           a \in ScalarAtoms(1)}

LinkedPairPrograms ==
    UNION {{Program(<< <<a, b>> >>, <<>>) : b \in LinkedAtoms(7..10, 2) \cup {a}} :
           a \in LinkedAtoms({7, 9}, 1)}

MixedPairPrograms ==
    {Program(<< <<a, b>> >>, <<>>) : a \in ScalarAtoms(1), b \in LinkedAtoms({7, 10}, 2)}
    \cup {Program(<< <<a, b>> >>, <<>>) : a \in LinkedAtoms({7, 10}, 1), b \in ScalarAtoms(2)}

\* the first field comes from a fragment spread; a fragment spread twice
SpreadPairPrograms ==
    {Program(<< <<FragmentSpread(1), b>> >>, << <<a>> >>) :
        a \in ScalarAtoms(1), b \in ScalarAtoms(2)}
    \cup {Program(<< <<FragmentSpread(1), Wrap(w, FragmentSpread(1))>> >>, << <<a>> >>) :
        a \in {ScalarAtom(1, 1), LinkedAtom(7, 1, 1)}, w \in 1..2}

\* two linked fields of one response key whose children hold the same node
SameChildren(n) ==
    CASE n = 1 -> << <<ScalarField("", 4, 5), ScalarField("", 5, 6)>>,
                    <<ScalarField("", 4, 5)>> >>
      [] n = 2 -> << <<ScalarField("k", 1, 5)>>, <<ScalarField("k", 1, 5)>> >>
      [] n = 3 -> << ChildList(3, 5), ChildList(3, 5) >>
      [] OTHER -> << <<ScalarField("k", 4, 5), ScalarField("k", 5, 6)>>,
                     <<ScalarField("k", 5, 6)>> >>

SameChildPrograms ==
    {Program(<< <<LinkedField(ResponseKey, 7, 1, SameChildren(n)[1]),
                  LinkedField(ResponseKey, d, 2, SameChildren(n)[2])>> >>, <<>>) :
        n \in 1..4, d \in {7, 8}}

\* a conflict (or none) at response key "y", placed beside or around the
\* two fields of response key "name"
Other(bad) ==
    IF bad THEN <<ScalarField("y", 1, 7), ScalarField("y", 5, 8)>>
    ELSE <<ScalarField("y", 1, 7)>>

Masking(shape, a, b, bad) ==
    CASE shape = 1 -> Program(<< <<a, b, InlineFragment(Other(bad))>> >>, <<>>)
      [] shape = 2 -> Program(<< <<LinkedField("u", 7, 9, Other(bad)), a, b>> >>, <<>>)
      [] shape = 3 -> Program(<< <<Condition(Other(bad)), a, b>> >>, <<>>)
      [] shape = 4 -> Program(<< <<a, FragmentSpread(1), b>> >>, << Other(bad) >>)
      [] shape = 5 -> Program(<< <<InlineFragment(<<a>> \o Other(bad)), b>> >>, <<>>)
      [] shape = 6 -> Program(<< <<InlineFragment(<<a, InlineFragment(Other(bad))>>), b>> >>,
                              <<>>)
      [] OTHER -> Program(<< <<FragmentSpread(1), b>> >>, << <<a>> \o Other(bad) >>)

MaskingPrograms ==
    {Masking(shape, ScalarAtom(1, 1), b, bad) :
        shape \in 1..7, b \in {ScalarAtom(5, 2), ScalarAtom(2, 2)}, bad \in BOOLEAN}

\* operations and fragments validated side by side: two operations and a
\* fragment one of them spreads, a fragment no operation spreads, and a
\* fragment that is flattened by an operation and by its own task at once
DriverPrograms ==
    {Program(<< <<ScalarAtom(1, 1)>>, <<FragmentSpread(1)>> >>, << Other(bad) >>) :
        bad \in BOOLEAN}
    \cup {Program(<< <<ScalarAtom(1, 1)>> >>, << Other(bad) >>) : bad \in BOOLEAN}
    \cup {Program(<< <<FragmentSpread(1)>> >>,
                  << <<LinkedAtom(7, 1, 1), LinkedAtom(7, 4, 2)>> >>)}

\* two linked fields of one response key whose children are linked fields of
\* one response key and different names
NestedLinkedPrograms ==
    {Program(<< <<LinkedField(ResponseKey, 7, 1,
                              <<LinkedField("k", 7, 5, <<ScalarField("", 11, 6)>>)>>),
                  LinkedField(ResponseKey, d, 2,
                              <<LinkedField("k", 9, 7, <<ScalarField("", 11, 8)>>)>>)>> >>,
             <<>>) : d \in {7, 8}}

\* three linked fields of one response key: owner on Dog, owner on Cat,
\* friend on Dog
LinkedTriplePrograms ==
    {Program(<< <<LinkedAtom(7, 1, 1), LinkedAtom(8, 1, 2), LinkedAtom(9, 1, 3)>> >>, <<>>)}

\* four sibling fields: two of response key "name", then one or two of "y"
SiblingPrograms ==
    {Program(<< <<ScalarAtom(1, 1), b>> \o Other(bad) >>, <<>>) :
        b \in {ScalarAtom(5, 2), ScalarAtom(2, 2)}, bad \in BOOLEAN}

Programs ==
    ScalarPairPrograms \cup LinkedPairPrograms \cup MixedPairPrograms
    \cup SpreadPairPrograms \cup SameChildPrograms \cup MaskingPrograms
    \cup DriverPrograms \cup SiblingPrograms \cup NestedLinkedPrograms
    \cup LinkedTriplePrograms

Init ==
    /\ prog \in Programs
    /\ stack = [t \in Tasks |-> <<>>]
    /\ ret = [t \in Tasks |-> NoRet]
    /\ status = [t \in Tasks |-> "idle"]
    /\ taskRes = [t \in Tasks |-> <<>>]
    /\ heap = <<>>
    /\ fragment_cache = <<>>
    /\ fields_cache = <<>>
    /\ out = [returned |-> FALSE, ok |-> TRUE, errs |-> <<>>]

Next ==
    \/ \E t \in Tasks : StartTask(t)
    \/ \E t \in Tasks : ValidateOperationCall(t)
    \/ \E t \in Tasks : ValidateOperationReturn(t)
    \/ \E t \in Tasks : ValidateSelectionsNext(t)
    \/ \E t \in Tasks : ValidateSelectionsReturn(t)
    \/ \E t \in Tasks : ValidateSelectionLinked(t)
    \/ \E t \in Tasks : ValidateSelectionLinkedInsert(t)
    \/ \E t \in Tasks : ValidateSelectionScalar(t)
    \/ \E t \in Tasks : ValidateSelectionNested(t)
    \/ \E t \in Tasks : ValidateSelectionNestedMerge(t)
    \/ \E t \in Tasks : ValidateSelectionSpread(t)
    \/ \E t \in Tasks : ValidateSelectionSpreadMerge(t)
    \/ \E t \in Tasks : ValidateSelectionSpreadReturn(t)
    \/ \E t \in Tasks : CollectFragmentHit(t)
    \/ \E t \in Tasks : CollectFragmentHitReturn(t)
    \/ \E t \in Tasks : CollectFragmentMiss(t)
    \/ \E t \in Tasks : CollectFragmentInsert(t)
    \/ \E t \in Tasks : LinkedFieldHit(t)
    \/ \E t \in Tasks : LinkedFieldHitReturn(t)
    \/ \E t \in Tasks : LinkedFieldMiss(t)
    \/ \E t \in Tasks : LinkedFieldInsert(t)
    \/ \E t \in Tasks : MergeFieldsNext(t)
    \/ \E t \in Tasks : MergeFieldsReturn(t)
    \/ \E t \in Tasks : InsertFinish(t)
    \/ \E t \in Tasks : InsertIdentical(t)
    \/ \E t \in Tasks : InsertLinkedPair(t)
    \/ \E t \in Tasks : InsertResolveRight(t)
    \/ \E t \in Tasks : InsertMergeChildren(t)
    \/ \E t \in Tasks : InsertMerged(t)
    \/ \E t \in Tasks : InsertScalarPair(t)
    \/ \E t \in Tasks : InsertMixedPair(t)
    \/ \E t \in Tasks : TaskDone(t)
    \/ ValidateProgramReturn

Spec == Init /\ [][Next]_vars

\* the worker pool keeps running a task that can take a step
FairSpec == Spec /\ WF_vars(Next)

----------------------------------------------------------------------------
(* Properties of the driver and of the two caches.                          *)

Roots == 1..(NumOps(prog) + NumFrags(prog))
Range(s) == {s[i] : i \in DOMAIN s}

\* C1: when validate_program has returned, every operation and every fragment
\* has been run to its end whatever the other tasks produced, the returned
\* diagnostics are the diagnostics of all tasks one after the other, and the
\* pass succeeded exactly when no task produced a diagnostic.
DriverAggregatesAllTasks ==
    out.returned =>
        /\ \A r \in Roots : r \in DOMAIN status /\ status[r] = "done"
        /\ out.errs = ConcatUpTo(taskRes, NumOps(prog) + NumFrags(prog))
        /\ out.ok <=> (\A r \in Roots : taskRes[r] = <<>>)
        /\ ~out.ok <=> (\E r \in Roots : Len(taskRes[r]) >= 1)

\* two tasks failed, a third succeeded, and all of it was returned
DriverAggregatesWitness ==
    /\ out.returned
    /\ ~out.ok
    /\ \E r1, r2, r3 \in Roots :
          /\ r1 < r2
          /\ taskRes[r1] # <<>> /\ taskRes[r2] # <<>> /\ taskRes[r3] = <<>>
          /\ Len(out.errs) = Len(taskRes[r1]) + Len(taskRes[r2])

\* C2: in every step of every interleaving, a key of fragment_cache or of
\* fields_cache that has an entry keeps an entry, and the list found through
\* it is the list found before the step: no merge extends a stored list, and
\* a second insert for a key stores an equal list.
CacheEntriesStep ==
    /\ \A f \in DOMAIN fragment_cache :
          /\ f \in DOMAIN fragment_cache'
          /\ heap'[fragment_cache'[f]] = heap[fragment_cache[f]]
    /\ \A n \in DOMAIN fields_cache :
          /\ n \in DOMAIN fields_cache'
          /\ heap'[fields_cache'[n]] = heap[fields_cache[n]]

CacheEntriesConstant == [][CacheEntriesStep]_vars

\* the frames that run validate_and_insert_field_selection
InsertSlots ==
    {s \in Slots(stack) : stack[s[1]][s[2]].fn = "validate_and_insert_field_selection"}

\* a merge has extended the list taken for a linked field while the cache
\* still holds that field's list: the extended list is a clone of it
PrivateCloneWitness ==
    \E s \in InsertSlots :
        LET fr == stack[s[1]][s[2]]
            n == PointerAddress(heap[fr.tgt][fr.i])
        IN  /\ fr.pc = "after_merge"
            /\ n \in DOMAIN fields_cache
            /\ fr.lh # fields_cache[n]
            /\ Len(heap[fr.lh]) > Len(heap[fields_cache[n]])

\* C3: the result of validate_program is the result of the same functions
\* with both caches disabled, and every list stored for a fragment or for a
\* linked field is the list that flattening its selections again yields, so
\* every spread site of a fragment is given equal lists.
CachingTransparent ==
    /\ out.returned => out = UncachedProgram(prog)
    /\ \A f \in DOMAIN fragment_cache :
          LET u == UncachedSelections(prog, prog.fragments[f])
          IN  u.errs = <<>> /\ Nodes(heap[fragment_cache[f]]) = u.fields
    /\ \A t \in DOMAIN stack :
          (/\ stack[t] # <<>>
           /\ Top(t).fn = "validate_linked_field_selections"
           /\ Top(t).pc = "get"
           /\ PointerAddress(Top(t).p) \in DOMAIN fields_cache) =>
              LET u == UncachedSelections(prog, Selections(Top(t).p))
              IN  /\ u.errs = <<>>
                  /\ Nodes(heap[fields_cache[PointerAddress(Top(t).p)]]) = u.fields

\* an operation spreads one fragment at two sites, and a site is served
\* from fragment_cache
CachingTransparentWitness ==
    /\ NumFrags(prog) = 1
    /\ Len(prog.operations[1]) = 2
    /\ prog.operations[1][1] = FragmentSpread(1)
    /\ prog.operations[1][2] \in {FragmentSpread(1), InlineFragment(<<FragmentSpread(1)>>)}
    /\ \E t \in DOMAIN stack :
          /\ IsOperationTask(t)
          /\ At(t, "validate_and_collect_fragment", {"get"})
          /\ Top(t).i \in DOMAIN fragment_cache

\* C4: when validate_program has finished, every fragment, spread by an
\* operation or not, has an entry in fragment_cache or has its diagnostics in
\* the returned result.
EveryFragmentValidated ==
    out.returned =>
        \A f \in 1..NumFrags(prog) :
            \/ f \in DOMAIN fragment_cache
            \/ /\ FragRoot(prog, f) \in DOMAIN taskRes
               /\ taskRes[FragRoot(prog, f)] # <<>>
               /\ Range(taskRes[FragRoot(prog, f)]) \subseteq Range(out.errs)

\* a fragment that no operation spreads was flattened and stored
UnreachableFragmentWitness ==
    /\ prog = Program(<< <<ScalarAtom(1, 1)>> >>, << Other(FALSE) >>)
    /\ out.returned
    /\ 1 \in DOMAIN fragment_cache

----------------------------------------------------------------------------
(* Properties of the comparison of two fields of one response key.          *)

IsField(n) == n.kind \in {"ScalarField", "LinkedField"}

\* the selection a wrapper holds: the only selection of an inline fragment,
\* of a condition or of the fragment spread
Unwrap(P, sel) ==
    IF IsField(sel) THEN sel
    ELSE IF sel.kind = "FragmentSpread"
    THEN (IF Len(P.fragments[sel.frag]) = 1 THEN P.fragments[sel.frag][1] ELSE sel)
    ELSE (IF Len(sel.sels) = 1 THEN sel.sels[1] ELSE sel)

\* one operation selecting two fields, each written directly or alone in an
\* inline fragment, a condition or a spread fragment
IsPairProgram(P) ==
    /\ NumOps(P) = 1
    /\ Len(P.operations[1]) = 2
    /\ IsField(Unwrap(P, P.operations[1][1]))
    /\ IsField(Unwrap(P, P.operations[1][2]))

FirstField == Unwrap(prog, prog.operations[1][1])
SecondField == Unwrap(prog, prog.operations[1][2])

SameKey(a, b) == get_response_key(a) = get_response_key(b)
DifferentNames(a, b) == get_field_definition(a).name # get_field_definition(b).name
SameKind(a, b) == IsLinked(a) = IsLinked(b)
SameResultType(a, b) == get_field_definition(a).type_ = get_field_definition(b).type_
DeclaredOnObject(a) ==
    get_field_definition(a).parent_type.some
    /\ get_field_definition(a).parent_type.kind = "Object"
DeclaredOnInterface(a) ==
    get_field_definition(a).parent_type.some
    /\ get_field_definition(a).parent_type.kind = "Interface"
DifferentObjects(a, b) ==
    /\ DeclaredOnObject(a) /\ DeclaredOnObject(b)
    /\ get_field_definition(a).parent_type.name # get_field_definition(b).parent_type.name
SameObjectOrInterface(a, b) ==
    \/ DeclaredOnInterface(a)
    \/ DeclaredOnInterface(b)
    \/ /\ DeclaredOnObject(a) /\ DeclaredOnObject(b)
       /\ get_field_definition(a).parent_type.name = get_field_definition(b).parent_type.name

\* the diagnostics whose primary location is a and whose annotation is b
Citing(errs, a, b) ==
    {d \in Range(errs) : d.location = loc(a) /\ d.annotation = loc(b)}

ComparedEntries(fr) ==
    {j \in DOMAIN heap[fr.tgt] :
        /\ SameKey(Node(heap[fr.tgt][j]), Node(fr.p))
        /\ IF fr.pc = "scan" THEN j < fr.i ELSE j <= fr.i}

AliasFor(a, b) ==
    [kind |-> "AmbiguousFieldAlias", response_key |-> get_response_key(b),
     l_name |-> get_field_definition(a).name, r_name |-> get_field_definition(b).name,
     l_type_string |-> <<>>, r_type_string |-> <<>>,
     location |-> loc(a), annotation |-> loc(b)]

TypeFor(a, b) ==
    [kind |-> "AmbiguousFieldType", response_key |-> get_response_key(b),
     l_name |-> get_field_definition(a).name, r_name |-> get_field_definition(b).name,
     l_type_string |-> TypeString(get_field_definition(a).type_),
     r_type_string |-> TypeString(get_field_definition(b).type_),
     location |-> loc(a), annotation |-> loc(b)]

\* the entries of the list of a running insert that have the candidate's
\* response key and the other kind
OtherKindEntries(fr) ==
    {j \in DOMAIN heap[fr.tgt] :
        /\ SameKey(Node(heap[fr.tgt][j]), Node(fr.p))
        /\ ~SameKind(Node(heap[fr.tgt][j]), Node(fr.p))}

\* the step in which task t returns from validate_and_insert_field_selection
\* with such an entry in the list: an error with the AmbiguousFieldType of
\* each such entry, and the list as it was
KindMismatchReturn(t) ==
    (/\ At(t, "validate_and_insert_field_selection", {"scan"})
     /\ stack'[t] = Below(t)
     /\ OtherKindEntries(Top(t)) # {}) =>
        /\ ~ret'[t].ok
        /\ \A j \in OtherKindEntries(Top(t)) :
              TypeFor(Node(heap[Top(t).tgt][j]), Node(Top(t).p)) \in Range(ret'[t].errs)
        /\ Top(t).tgt \in DOMAIN heap'
        /\ heap'[Top(t).tgt] = heap[Top(t).tgt]

\* C7: whenever the candidate of an insert and an entry of its list share a
\* response key and one is linked while the other is scalar, the insert
\* collects an AmbiguousFieldType for the pair when it compares them, for
\* every parent_exclusive and every pair of declaring types, returns an error
\* holding it, and leaves the list as it was; so no list ever holds a linked
\* and a scalar field of one response key, and an operation that selects
\* such a pair fails with the diagnostic.
KindMismatchAlwaysReported ==
    /\ [](\A s \in InsertSlots :
            \A j \in ComparedEntries(stack[s[1]][s[2]]) :
               LET a == Node(heap[stack[s[1]][s[2]].tgt][j])
                   b == Node(stack[s[1]][s[2]].p)
               IN  ~SameKind(a, b) => TypeFor(a, b) \in Range(stack[s[1]][s[2]].errs))
    /\ [](\A h \in DOMAIN heap : \A i, j \in DOMAIN heap[h] :
            SameKey(Node(heap[h][i]), Node(heap[h][j])) =>
                SameKind(Node(heap[h][i]), Node(heap[h][j])))
    /\ []((/\ out.returned
           /\ IsPairProgram(prog)
           /\ SameKey(FirstField, SecondField)
           /\ ~SameKind(FirstField, SecondField)) =>
              /\ ~out.ok
              /\ TypeFor(FirstField, SecondField) \in Range(out.errs))
    /\ [][\A t \in DOMAIN stack : KindMismatchReturn(t)]_vars

\* a merge under parent_exclusive = TRUE has compared a linked field with a
\* scalar field and holds the diagnostic
KindMismatchWitness ==
    \E s \in InsertSlots :
        LET fr == stack[s[1]][s[2]]
        IN  /\ fr.pe
            /\ \E j \in ComparedEntries(fr) :
                  /\ ~SameKind(Node(heap[fr.tgt][j]), Node(fr.p))
                  /\ TypeFor(Node(heap[fr.tgt][j]), Node(fr.p)) \in Range(fr.errs)

\* C8: two value-equal fields of one response key produce no diagnostic, at
\* any depth: an insert never goes on comparing past an entry equal to its
\* candidate, no returned diagnostic cites a node against itself, an
\* operation that selects one node twice succeeds, and so does an operation
\* whose two linked fields of one name hold one and the same child node,
\* whatever else the first one holds and whatever types declare the two.
IdenticalFieldsNoDiagnostic ==
    /\ \A s \in InsertSlots :
          \A j \in ComparedEntries(stack[s[1]][s[2]]) :
             Node(heap[stack[s[1]][s[2]].tgt][j]) # Node(stack[s[1]][s[2]].p)
    /\ out.returned => \A d \in Range(out.errs) : d.location # d.annotation
    /\ (out.returned /\ IsPairProgram(prog) /\ FirstField = SecondField) => out.ok
    /\ (/\ out.returned
        /\ IsPairProgram(prog)
        /\ IsLinked(FirstField) /\ IsLinked(SecondField)
        /\ SameKey(FirstField, SecondField)
        /\ ~DifferentNames(FirstField, SecondField)
        /\ UncachedSelections(prog, FirstField.sels).errs = <<>>
        /\ Len(SecondField.sels) = 1
        /\ SecondField.sels[1] = FirstField.sels[1]) => out.ok

\* owner on Dog and owner on Cat hold the same child node; the first holds a
\* second child of that response key and another result type
IdenticalFieldsWitness ==
    /\ out.returned
    /\ IsPairProgram(prog)
    /\ IsLinked(FirstField) /\ IsLinked(SecondField)
    /\ DifferentObjects(FirstField, SecondField)
    /\ Len(FirstField.sels) = 2
    /\ SameKey(FirstField.sels[1], FirstField.sels[2])
    /\ ~SameResultType(FirstField.sels[1], FirstField.sels[2])
    /\ SecondField.sels = <<FirstField.sels[1]>>
    /\ out.ok

\* what the rules make of an entry x and a candidate y of one response key
Conflicting(x, y, parent_exclusive) ==
    LET exclusive == parent_exclusive \/ DifferentObjects(x, y)
    IN  \/ ~SameKind(x, y)
        \/ DifferentNames(x, y) /\ ~exclusive
        \/ ~IsLinked(x) /\ ~IsLinked(y) /\ exclusive /\ ~SameResultType(x, y)

\* the (child of a, child of b) pairs of one response key that conflict; a
\* child of b is compared with the children of a up to one equal to it
ChildConflicts(a, b) ==
    {c \in (DOMAIN a.sels) \X (DOMAIN b.sels) :
        /\ IsField(a.sels[c[1]]) /\ IsField(b.sels[c[2]])
        /\ SameKey(a.sels[c[1]], b.sels[c[2]])
        /\ \A k \in 1..c[1] : a.sels[k] # b.sels[c[2]]
        /\ Conflicting(a.sels[c[1]], b.sels[c[2]], DifferentObjects(a, b))}

----------------------------------------------------------------------------
(* Diagnostics of one scope and conflicts of another.                       *)

RECURSIVE Without(_, _)
\* the selections `sels` with every occurrence of node n taken out
Without(sels, n) ==
    IF sels = <<>> THEN <<>>
    ELSE LET rest == Without(Tail(sels), n)
         IN  IF Head(sels) = n THEN rest
             ELSE <<[Head(sels) EXCEPT !.sels = Without(@, n)]>> \o rest

ProgramWithout(P, n) ==
    Program([i \in DOMAIN P.operations |-> Without(P.operations[i], n)],
            [f \in DOMAIN P.fragments |-> Without(P.fragments[f], n)])

\* the field that makes the conflict at response key "y"
SecondOfOther == Other(TRUE)[2]

\* C10: every diagnostic that the program returns without the conflict at
\* response key "y" is still returned with that conflict present in another
\* scope of the program.
OtherScopeNeverMasks ==
    out.returned =>
        Range(UncachedProgram(ProgramWithout(prog, SecondOfOther)).errs)
            \subseteq Range(out.errs)

----------------------------------------------------------------------------
(* Completion of the tasks, and what a task does alone.                     *)

\* a lookup guard is held only by the call on top of its stack, between the
\* hit and its return
GuardOnlyAtHit ==
    \A s \in Slots(stack) :
        stack[s[1]][s[2]].guard # "" =>
            /\ s[2] = Len(stack[s[1]])
            /\ stack[s[1]][s[2]].pc = "hit"

\* C11: (the fragment spreads of the programs are acyclic) no call holds a
\* lookup guard of a cache while it flattens or inserts, and in every
\* interleaving every operation task and every fragment task runs to its end
\* and validate_program returns; a reachable state in which no task can step
\* before that would be a behaviour of FairSpec that never returns.
TasksRunToCompletion ==
    /\ []GuardOnlyAtHit
    /\ <>(out.returned /\ \A r \in Roots : status[r] = "done")

\* one task holds the guard of a fragment's entry while another task, which
\* flattened the same fragment, is about to insert its list
InsertWaitsForGuardWitness ==
    \E t1, t2 \in DOMAIN stack :
        /\ t1 # t2
        /\ At(t1, "validate_and_collect_fragment", {"hit"})
        /\ At(t2, "validate_and_collect_fragment", {"computed"})
        /\ ret[t2].ok
        /\ Top(t1).i = Top(t2).i

----------------------------------------------------------------------------
(* One task alone: a fragment is flattened once.                            *)

\* task t runs and no other task has started
Lone(t) == status[t] = "running" /\ \A u \in Tasks \ {t} : status[u] = "idle"

\* the frames of task t that flatten fragment f after a miss
Flattening(t, f) ==
    {d \in 1..Len(stack[t]) :
        /\ stack[t][d].fn = "validate_and_collect_fragment"
        /\ stack[t][d].pc = "computed"
        /\ stack[t][d].i = f}

\* a task alone flattens only a fragment that has no entry
LoneMissOnlyWithoutEntry ==
    \A t \in DOMAIN stack : Lone(t) =>
        \A f \in DOMAIN fragment_cache : Flattening(t, f) = {}

\* the steps of validate_and_collect_fragment in a task alone: after a
\* flattening without diagnostics the list is stored and its handle returned;
\* a lookup that finds the entry pushes no call, allocates nothing and
\* returns the stored handle with no diagnostic; an entry stays
LoneResolveStep ==
    \A t \in DOMAIN stack : (Lone(t) /\ stack'[t] # stack[t]) =>
        /\ (At(t, "validate_and_collect_fragment", {"computed"}) /\ ret[t].ok) =>
              /\ Top(t).i \in DOMAIN fragment_cache'
              /\ heap'[fragment_cache'[Top(t).i]] = heap[ret[t].val]
              /\ ret'[t] = Ok(fragment_cache'[Top(t).i])
              /\ stack'[t] = Below(t)
        /\ (At(t, "validate_and_collect_fragment", {"get"})
               /\ Top(t).i \in DOMAIN fragment_cache) =>
              /\ Len(stack'[t]) = Len(stack[t])
              /\ stack'[t][Len(stack[t])].pc = "hit"
              /\ heap' = heap
              /\ fragment_cache' = fragment_cache
        /\ At(t, "validate_and_collect_fragment", {"hit"}) =>
              /\ stack'[t] = Below(t)
              /\ ret'[t] = Ok(fragment_cache[Top(t).i])
              /\ ret'[t].errs = <<>>
              /\ heap' = heap
              /\ fragment_cache' = fragment_cache
        /\ \A f \in DOMAIN fragment_cache :
              f \in DOMAIN fragment_cache' /\ fragment_cache'[f] = fragment_cache[f]

\* C12: in a task that runs while no other task has started, a fragment whose
\* flattening gives no diagnostic is flattened once: the first resolution
\* stores its list in fragment_cache, the entry stays, and every later
\* resolution finds it and returns the stored handle without a call to
\* validate_selections and without a diagnostic.
FragmentFlattenedOnce == []LoneMissOnlyWithoutEntry /\ [][LoneResolveStep]_vars

\* the second spread site of an operation is served from the entry that the
\* first site stored, the fragment's own task not having started
SecondSiteHitWitness ==
    /\ NumOps(prog) = 1 /\ NumFrags(prog) = 1
    /\ Lone(1)
    /\ At(1, "validate_and_collect_fragment", {"hit"})
    /\ stack[1][1].fn = "validate_operation"
    /\ stack[1][2].i = 2

----------------------------------------------------------------------------
(* The fast path of validate_and_insert_field_selection.                    *)

\* owner { k: name (Pet)  k: name (Dog) } on Dog beside
\* owner { k: name (Dog) } on Cat, with the same node `k: name (Dog)`
EqualAfterConflictProgram ==
    Program(<< <<LinkedField(ResponseKey, 7, 1, SameChildren(4)[1]),
                 LinkedField(ResponseKey, 8, 2, SameChildren(4)[2])>> >>, <<>>)

\* the step of a call whose scan is at an entry equal to the candidate
FastPathStep ==
    \A t \in DOMAIN stack :
        (/\ At(t, "validate_and_insert_field_selection", {"scan"})
         /\ ScanIndex(t) # 0
         /\ FieldEq(Candidate(t), Existing(t))
         /\ stack'[t] # stack[t]) =>
            /\ stack'[t] = Below(t)
            /\ Top(t).tgt \in DOMAIN heap'
            /\ heap'[Top(t).tgt] = heap[Top(t).tgt]
            /\ ret'[t].ok <=> Top(t).errs = <<>>
            /\ ret'[t].errs = Top(t).errs

\* C13: when the scan of validate_and_insert_field_selection reaches an entry
\* equal to the candidate, the call returns at once: the entries after it are
\* not compared, the candidate is not appended, the result is Ok exactly when
\* no error was collected at the entries before it, and otherwise it is the
\* errors collected there; the two `owner` fields whose children are
\* [k: name (Pet), k: name (Dog)] and the same node k: name (Dog), declared
\* on Dog and Cat, fail with the one diagnostic of the first child against
\* the second.
FastPathKeepsErrors ==
    /\ [][FastPathStep]_vars
    /\ []((out.returned /\ prog = EqualAfterConflictProgram) =>
            out.errs = <<TypeFor(SameChildren(4)[1][1], SameChildren(4)[2][1])>>)

\* the scan has collected an error at an earlier entry and is at an entry
\* equal to the candidate
FastPathAfterErrorWitness ==
    \E t \in DOMAIN stack :
        /\ At(t, "validate_and_insert_field_selection", {"scan"})
        /\ ScanIndex(t) > 1
        /\ FieldEq(Candidate(t), Existing(t))
        /\ Top(t).errs # <<>>

----------------------------------------------------------------------------
(* Two scalar fields of one response key.                                   *)

\* C14: for a scalar candidate and every scalar entry of its response key
\* that a call of validate_and_insert_field_selection has compared with it:
\* when the two are mutually exclusive (parent_exclusive, or declared on two
\* different object types) the call holds no AmbiguousFieldAlias for the
\* pair, and holds an AmbiguousFieldType for it exactly when the result types
\* differ; when they are not, it holds no AmbiguousFieldType for the pair
\* whatever the result types, and an AmbiguousFieldAlias exactly when the
\* names differ.
ScalarPairRule ==
    \A s \in InsertSlots :
        LET fr == stack[s[1]][s[2]]
        IN  \A j \in ComparedEntries(fr) :
               LET a == Node(heap[fr.tgt][j])
                   b == Node(fr.p)
                   exclusive == fr.pe \/ DifferentObjects(a, b)
               IN  (~IsLinked(a) /\ ~IsLinked(b)) =>
                      IF exclusive
                      THEN /\ AliasFor(a, b) \notin Range(fr.errs)
                           /\ TypeFor(a, b) \in Range(fr.errs) <=> ~SameResultType(a, b)
                      ELSE /\ TypeFor(a, b) \notin Range(fr.errs)
                           /\ AliasFor(a, b) \in Range(fr.errs) <=> DifferentNames(a, b)

\* a merge with parent_exclusive true has compared two scalar fields declared
\* on one object type with different names and different result types, and
\* holds the type diagnostic only
ExclusiveScalarTypeWitness ==
    \E s \in InsertSlots :
        LET fr == stack[s[1]][s[2]]
        IN  /\ fr.pe
            /\ \E j \in ComparedEntries(fr) :
                   LET a == Node(heap[fr.tgt][j])
                       b == Node(fr.p)
                   IN  /\ ~IsLinked(a) /\ ~IsLinked(b)
                       /\ ~DifferentObjects(a, b)
                       /\ DifferentNames(a, b)
                       /\ ~SameResultType(a, b)
                       /\ fr.errs = <<TypeFor(a, b)>>

----------------------------------------------------------------------------
(* What validate_and_insert_field_selection does to `fields`.               *)

\* a list changes only in the last step of a call that has it as `fields`,
\* collected no error and met no entry equal to its candidate, and by the
\* candidate appended at its end
AccumulatorStep ==
    \A h \in DOMAIN heap \cap DOMAIN heap' :
        heap'[h] # heap[h] =>
            \E t \in DOMAIN stack :
                /\ At(t, "validate_and_insert_field_selection", {"scan"})
                /\ Top(t).tgt = h
                /\ ScanIndex(t) = 0
                /\ Top(t).errs = <<>>
                /\ \A j \in DOMAIN heap[h] : ~FieldEq(Node(heap[h][j]), Candidate(t))
                /\ heap'[h] = Append(heap[h], Top(t).p)
                /\ stack'[t] = Below(t)
                /\ ret'[t].ok

\* a call that returns errors leaves `fields` as it is
ErrorReturnStep ==
    \A t \in DOMAIN stack :
        (/\ status[t] = "running" /\ stack[t] # <<>>
         /\ Top(t).fn = "validate_and_insert_field_selection"
         /\ stack'[t] = Below(t)
         /\ ~ret'[t].ok) =>
            /\ Top(t).tgt \in DOMAIN heap'
            /\ heap'[Top(t).tgt] = heap[Top(t).tgt]

\* while a call runs, the calls it has made (resolving and merging child
\* lists) and the other tasks work on other lists: every other frame that
\* writes to its `fields` is one of its callers
AccumulatorPrivate ==
    \A s \in InsertSlots : \A s2 \in Slots(stack) \ {s} :
        (/\ stack[s2[1]][s2[2]].fn \in {"validate_and_insert_field_selection",
                                       "validate_and_merge_fields", "validate_selection"}
         /\ stack[s2[1]][s2[2]].tgt = stack[s[1]][s[2]].tgt) =>
            s2[1] = s[1] /\ s2[2] < s[2]

\* C15: validate_and_insert_field_selection changes `fields` only by pushing
\* the candidate at its end, in its last step, when it collected no error and
\* met no entry equal to the candidate; a call that returns errors leaves
\* `fields` unchanged, and no entry of any list is ever removed, moved or
\* replaced, the nested merges writing to other lists.
InsertOnlyAppends ==
    /\ [][AccumulatorStep /\ ErrorReturnStep]_vars
    /\ []AccumulatorPrivate

\* a call has compared its candidate with the entries of a list of two or
\* more fields, collected an error, and is about to return it
InsertFailsWitness ==
    \E t \in DOMAIN stack :
        /\ At(t, "validate_and_insert_field_selection", {"scan"})
        /\ ScanIndex(t) = 0
        /\ Top(t).errs # <<>>
        /\ Len(heap[Top(t).tgt]) >= 2

----------------------------------------------------------------------------
(* validate_selections goes through its whole list.                         *)

\* the frames that run validate_selections
SelectionsSlots == {s \in Slots(stack) : stack[s[1]][s[2]].fn = "validate_selections"}

\* the errors of the first k selections of `sels`, each selection's errors
\* after those of the selections before it
ErrorsOfFirst(sels, k) ==
    UncachedSelectionsFrom(prog, SubSeq(sels, 1, k), 1, <<>>, <<>>).errs

\* a running validate_selections holds the errors of all the selections
\* before the one it is at
SelectionsErrorsSoFar ==
    \A s \in SelectionsSlots :
        LET fr == stack[s[1]][s[2]]
        IN  /\ fr.i \in 1..Len(Selections(fr.p))
            /\ fr.errs = ErrorsOfFirst(Selections(fr.p), fr.i - 1)

\* validate_selections returns after its last selection only, with the
\* errors of all its selections or, when there is none, with the list
SelectionsReturnStep ==
    \A t \in DOMAIN stack :
        (/\ status[t] = "running" /\ stack[t] # <<>>
         /\ Top(t).fn = "validate_selections"
         /\ stack'[t] = Below(t)) =>
            LET sels == Selections(Top(t).p)
                all == UncachedSelectionsFrom(prog, sels, 1, <<>>, <<>>)
            IN  /\ Top(t).pc = "ret" /\ Top(t).i = Len(sels)
                /\ ret'[t].errs = all.errs
                /\ ret'[t].ok <=> all.errs = <<>>
                /\ ret'[t].ok => /\ ret'[t].val = Top(t).acc
                                 /\ Nodes(heap'[Top(t).acc]) = all.fields
                /\ ~ret'[t].ok => ret'[t].val = NoH

\* validate_and_merge_fields returns after the last field of `right` only,
\* with the errors of all its fields in their order
MergeReturnStep ==
    \A t \in DOMAIN stack :
        (/\ status[t] = "running" /\ stack[t] # <<>>
         /\ Top(t).fn = "validate_and_merge_fields"
         /\ stack'[t] = Below(t)) =>
            /\ Top(t).right # <<>> => Top(t).pc = "ret" /\ Top(t).i = Len(Top(t).right)
            /\ ret'[t].errs = (IF Top(t).pc = "ret" THEN Top(t).errs \o ret[t].errs ELSE <<>>)
            /\ ret'[t].ok <=> ret'[t].errs = <<>>

\* C16: validate_selections goes through every selection of its list
\* whatever the earlier ones returned; what it returns is the errors of the
\* selections one after the other in the order of the list, and the list of
\* fields only when there is no error (validate_and_merge_fields goes
\* through `right` in the same way); the four siblings name: breed,
\* name, y: breed, y: name fail with the conflict at "name" followed by
\* the conflict at "y", and so do the siblings name: breed, name beside an
\* inline fragment, a condition, a linked field or a spread fragment that
\* holds y: breed, y: name, before, between or after them.
EverySelectionProcessed ==
    /\ []SelectionsErrorsSoFar
    /\ [][SelectionsReturnStep /\ MergeReturnStep]_vars
    /\ []((/\ out.returned
           /\ prog = Program(<< <<ScalarAtom(1, 1), ScalarAtom(5, 2)>> \o Other(TRUE) >>,
                             <<>>)) =>
             out.errs = <<AliasFor(ScalarAtom(1, 1), ScalarAtom(5, 2)),
                          AliasFor(Other(TRUE)[1], Other(TRUE)[2])>>)
    /\ []((/\ out.returned
           /\ \E shape \in 1..4 :
                 prog = Masking(shape, ScalarAtom(1, 1), ScalarAtom(5, 2), TRUE)) =>
             /\ out.errs[1] \in Range(taskRes[1]) /\ out.errs[2] \in Range(taskRes[1])
             /\ out.errs[1] # out.errs[2]
             /\ Range(out.errs) = {AliasFor(ScalarAtom(1, 1), ScalarAtom(5, 2)),
                                   AliasFor(Other(TRUE)[1], Other(TRUE)[2])})

\* validate_selections holds errors of an earlier selection and has called
\* validate_selection for a later one, which has collected its own error
LaterSiblingWitness ==
    \E s \in SelectionsSlots :
        LET t == s[1]
            fr == stack[s[1]][s[2]]
        IN  /\ fr.errs # <<>>
            /\ fr.i > 2
            /\ At(t, "validate_and_insert_field_selection", {"scan"})
            /\ Len(stack[t]) = s[2] + 1
            /\ Top(t).errs # <<>>
            /\ get_response_key(Candidate(t)) = "y"

----------------------------------------------------------------------------
(* Two linked fields of one response key: the merge of their child lists.   *)

\* the frames that run validate_and_merge_fields or
\* validate_and_insert_field_selection
ExclusiveSlots ==
    {s \in Slots(stack) :
        stack[s[1]][s[2]].fn \in {"validate_and_merge_fields",
                                  "validate_and_insert_field_selection"}}

AliasIn(errs) == {d \in Range(errs) : d.kind = "AmbiguousFieldAlias"}

\* a call that is at a pair of linked fields holds the pair's exclusivity,
\* and the merge of the child lists runs with it as parent_exclusive, on the
\* list resolved for the existing field (or its clone) and the fields of the
\* list resolved for the candidate
LinkedPairMerges ==
    \A s \in InsertSlots :
        LET t == s[1]
            fr == stack[s[1]][s[2]]
        IN  fr.pc \in {"after_l", "after_r", "after_merge"} =>
               LET a == Node(heap[fr.tgt][fr.i])
                   b == Node(fr.p)
               IN  /\ IsLinked(a) /\ IsLinked(b) /\ SameKey(a, b)
                   /\ fr.ex <=> (fr.pe \/ DifferentObjects(a, b))
                   /\ AliasFor(a, b) \in Range(fr.errs) <=> (~fr.ex /\ DifferentNames(a, b))
                   /\ s[2] < Len(stack[t]) =>
                         LET up == stack[t][s[2] + 1]
                         IN  IF fr.pc = "after_merge"
                             THEN /\ up.fn = "validate_and_merge_fields"
                                  /\ up.pe = fr.ex
                                  /\ up.tgt = fr.lh
                                  /\ up.right = heap[fr.rh]
                             ELSE /\ up.fn = "validate_linked_field_selections"
                                  /\ up.p = (IF fr.pc = "after_l" THEN heap[fr.tgt][fr.i]
                                                                  ELSE fr.p)

\* the steps of a call at a pair of linked fields: resolve the existing
\* field's list, resolve the candidate's list, merge
LinkedPairStep ==
    \A t \in DOMAIN stack :
        (At(t, "validate_and_insert_field_selection", {"scan", "after_l", "after_r"})
         /\ stack'[t] # stack[t]) =>
            LET n == Len(stack[t])
            IN  /\ (/\ Top(t).pc = "scan"
                    /\ ScanIndex(t) # 0
                    /\ ~FieldEq(Candidate(t), Existing(t))
                    /\ IsLinked(Existing(t)) /\ IsLinked(Candidate(t))) =>
                       Len(stack'[t]) = n + 1 /\ stack'[t][n].pc = "after_l"
                /\ Top(t).pc = "after_l" =>
                       Len(stack'[t]) = n + 1 /\ stack'[t][n].pc = "after_r"
                /\ Top(t).pc = "after_r" =>
                       /\ Len(stack'[t]) = n + 1 /\ stack'[t][n].pc = "after_merge"
                       /\ stack'[t][n + 1].fn = "validate_and_merge_fields"
                       /\ stack'[t][n + 1].pe = Top(t).ex

\* below a call that runs with parent_exclusive true, or that is at an
\* exclusive pair of linked fields, every merge and every insert runs with
\* parent_exclusive true; a call with parent_exclusive true holds no
\* AmbiguousFieldAlias and is returned none
ExclusiveBelow ==
    \A s \in ExclusiveSlots :
        LET t == s[1]
            fr == stack[s[1]][s[2]]
        IN  /\ (fr.pe \/ fr.ex) =>
                  \A d \in (s[2] + 1)..Len(stack[t]) :
                      stack[t][d].fn \in {"validate_and_merge_fields",
                                          "validate_and_insert_field_selection"}
                          => stack[t][d].pe
            /\ fr.pe => AliasIn(fr.errs) = {}
            /\ ((fr.pe \/ fr.ex) /\ s[2] = Len(stack[t])) => AliasIn(ret[t].errs) = {}

\* C17: at two linked fields of one response key,
\* validate_and_insert_field_selection resolves both child lists and merges
\* them whether the pair is exclusive or not and whether it pushed an
\* AmbiguousFieldAlias or not, with the pair's exclusivity as
\* parent_exclusive of the merge; below an exclusive pair every merge at every
\* depth runs with parent_exclusive true and no AmbiguousFieldAlias comes out
\* of it: owner { k: owner { id } } beside owner { k: friend { id } }
\* succeeds when the two `owner` are declared on Dog and Cat, and fails with
\* the AmbiguousFieldAlias at "k" when both are declared on Dog.
LinkedPairAlwaysMerges ==
    /\ []LinkedPairMerges
    /\ [][LinkedPairStep]_vars
    /\ []ExclusiveBelow
    /\ []((out.returned /\ prog \in NestedLinkedPrograms) =>
            LET a == FirstField
                b == SecondField
            IN  out.errs = (IF DifferentObjects(a, b) THEN <<>>
                            ELSE <<AliasFor(a.sels[1], b.sels[1])>>))

\* below two `owner` fields declared on Dog and Cat, two child fields
\* declared on one type (with different names, or with children of their
\* own) are merged with parent_exclusive true, one level further down
NestedExclusiveWitness ==
    \E t \in DOMAIN stack : \E d1, d2 \in 1..Len(stack[t]) :
        /\ d1 < d2
        /\ stack[t][d1].fn = "validate_and_insert_field_selection"
        /\ stack[t][d1].pc = "after_merge"
        /\ ~stack[t][d1].pe /\ stack[t][d1].ex
        /\ stack[t][d2].fn = "validate_and_insert_field_selection"
        /\ stack[t][d2].pc = "after_merge"
        /\ stack[t][d2].pe
        /\ ~DifferentObjects(Node(heap[stack[t][d2].tgt][stack[t][d2].i]), Node(stack[t][d2].p))
        /\ Len(stack[t]) > d2
        /\ stack[t][d2 + 1].pe

----------------------------------------------------------------------------
(* The result does not depend on the schedule.                              *)

\* what flattening the selections of root r (an operation or a fragment)
\* returns, as a function of the program
ErrorsOfRoot(r) == UncachedSelections(prog, RootSelections(prog, r)).errs

\* the selections that the call on top of the stack of task t has just had
\* resolved: of a fragment or of a linked field; <<>> when it is not there
JustResolved(t) ==
    IF stack[t] = <<>> THEN <<>>
    ELSE IF Top(t).fn = "validate_selection" /\ Top(t).pc = "after_fragment"
    THEN prog.fragments[Node(Top(t).p).frag]
    ELSE IF Top(t).fn = "validate_selection" /\ Top(t).pc = "after_linked"
    THEN Selections(Top(t).p)
    ELSE IF Top(t).fn = "validate_and_insert_field_selection" /\ Top(t).pc = "after_l"
    THEN Selections(heap[Top(t).tgt][Top(t).i])
    ELSE IF Top(t).fn = "validate_and_insert_field_selection" /\ Top(t).pc = "after_r"
    THEN Selections(Top(t).p)
    ELSE <<>>

\* C18: in every interleaving of the tasks, whatever was found in the caches
\* and whoever stored it, each resolution of a fragment or of a linked field
\* returns the errors, or the list, that its selections determine; each task
\* ends with the errors that its operation or fragment determines; and
\* validate_program returns these, task after task, failing exactly when
\* there is one.
ResultIndependentOfSchedule ==
    /\ \A t \in DOMAIN stack :
          (status[t] = "running" /\ JustResolved(t) # <<>>) =>
              LET u == UncachedSelections(prog, JustResolved(t))
              IN  /\ ret[t].errs = u.errs
                  /\ ret[t].ok <=> u.errs = <<>>
                  /\ ret[t].ok => Nodes(heap[ret[t].val]) = u.fields
    /\ \A r \in Roots : status[r] = "done" => taskRes[r] = ErrorsOfRoot(r)
    /\ out.returned =>
          /\ out.errs = ConcatUpTo([r \in Roots |-> ErrorsOfRoot(r)], Cardinality(Roots))
          /\ out.ok <=> \A r \in Roots : ErrorsOfRoot(r) = <<>>

\* a task has flattened a fragment and is about to store its list while the
\* entry stored by another task is there
DuplicateInsertWitness ==
    \E t \in DOMAIN stack :
        /\ At(t, "validate_and_collect_fragment", {"computed"})
        /\ ret[t].ok
        /\ Top(t).i \in DOMAIN fragment_cache
        /\ fragment_cache[Top(t).i][1] # t
        /\ \E n \in DOMAIN fields_cache : fields_cache[n][1] # t

----------------------------------------------------------------------------
(* What the caches hold.                                                    *)

\* the selections behind a key of fragment_cache / of fields_cache
FragmentSelections(f) == prog.fragments[f]
LinkedSelections(n) == Selections(n)

\* every entry is for selections whose flattening gives no error, and is
\* the list that flattening gives
OnlyCleanEntries ==
    /\ \A f \in DOMAIN fragment_cache :
          LET u == UncachedSelections(prog, FragmentSelections(f))
          IN  u.errs = <<>> /\ Nodes(heap[fragment_cache[f]]) = u.fields
    /\ \A n \in DOMAIN fields_cache :
          LET u == UncachedSelections(prog, LinkedSelections(n))
          IN  u.errs = <<>> /\ Nodes(heap[fields_cache[n]]) = u.fields

\* a call that flattened after a miss and got errors holds the errors that
\* the selections determine: the same at every resolution
FailedResolutionErrors ==
    \A t \in DOMAIN stack :
        /\ (At(t, "validate_and_collect_fragment", {"computed"}) /\ ~ret[t].ok) =>
              /\ ret[t].errs # <<>>
              /\ ret[t].errs = UncachedSelections(prog, FragmentSelections(Top(t).i)).errs
        /\ (At(t, "validate_linked_field_selections", {"computed"}) /\ ~ret[t].ok) =>
              /\ ret[t].errs # <<>>
              /\ ret[t].errs = UncachedSelections(prog, LinkedSelections(Top(t).p)).errs

\* an entry is stored only by the call that has just flattened the
\* selections without error, and is the list it was returned; a call that
\* got errors returns them and stores nothing
CacheInsertStep ==
    /\ \A f \in DOMAIN fragment_cache' :
          (f \notin DOMAIN fragment_cache \/ fragment_cache'[f] # fragment_cache[f]) =>
              \E t \in DOMAIN stack :
                  /\ At(t, "validate_and_collect_fragment", {"computed"})
                  /\ Top(t).i = f
                  /\ ret[t].ok /\ fragment_cache'[f] = ret[t].val
    /\ \A n \in DOMAIN fields_cache' :
          (n \notin DOMAIN fields_cache \/ fields_cache'[n] # fields_cache[n]) =>
              \E t \in DOMAIN stack :
                  /\ At(t, "validate_linked_field_selections", {"computed"})
                  /\ PointerAddress(Top(t).p) = n
                  /\ ret[t].ok /\ fields_cache'[n] = ret[t].val
    /\ \A t \in DOMAIN stack :
          (/\ At(t, "validate_and_collect_fragment", {"computed"})
              \/ At(t, "validate_linked_field_selections", {"computed"})
           /\ ~ret[t].ok
           /\ stack'[t] # stack[t]) =>
              /\ stack'[t] = Below(t)
              /\ ret'[t] = Err(ret[t].errs)
              /\ fragment_cache' = fragment_cache /\ fields_cache' = fields_cache

\* C19: fragment_cache and fields_cache hold entries only for fragments and
\* linked fields whose selections flatten without error, stored by a call
\* that was returned Ok; a fragment or linked field whose flattening gives
\* errors never has an entry, is flattened again at every resolution and
\* returns the same errors each time: a fragment with a conflict that one
\* operation spreads is reported once by that operation and once by the
\* fragment's own task.
OnlyCleanResultsCached ==
    /\ []OnlyCleanEntries
    /\ []FailedResolutionErrors
    /\ [][CacheInsertStep]_vars
    /\ []((/\ out.returned
           /\ prog = Program(<< <<ScalarAtom(1, 1)>>, <<FragmentSpread(1)>> >>,
                             << Other(TRUE) >>)) =>
             /\ fragment_cache = <<>>
             /\ out.errs = <<AliasFor(Other(TRUE)[1], Other(TRUE)[2]),
                             AliasFor(Other(TRUE)[1], Other(TRUE)[2])>>)

\* the fragment with the conflict has been flattened by the operation that
\* spreads it and by its own task, both got the diagnostic, and no entry
\* was stored
FailedTwiceWitness ==
    /\ prog = Program(<< <<ScalarAtom(1, 1)>>, <<FragmentSpread(1)>> >>, << Other(TRUE) >>)
    /\ status[2] = "done" /\ taskRes[2] # <<>>
    /\ At(3, "validate_and_collect_fragment", {"computed"})
    /\ ~ret[3].ok
    /\ ret[3].errs = taskRes[2]
    /\ fragment_cache = <<>>

----------------------------------------------------------------------------
(* The linked fields that are compared have selections that flatten.        *)

\* the selections of linked field n flatten without error, and their list
\* is in fields_cache
Flattens(n) ==
    /\ UncachedSelections(prog, Selections(n)).errs = <<>>
    /\ PointerAddress(n) \in DOMAIN fields_cache

\* every linked field in a list (a `fields` being built, a stored list, a
\* clone), in the `right` of a merge, or given to
\* validate_and_insert_field_selection
LinkedEntriesFlatten ==
    /\ \A h \in DOMAIN heap : \A j \in DOMAIN heap[h] :
          IsLinked(Node(heap[h][j])) => Flattens(heap[h][j])
    /\ \A s \in ExclusiveSlots :
          LET fr == stack[s[1]][s[2]]
          IN  IF fr.fn = "validate_and_merge_fields"
              THEN \A j \in DOMAIN fr.right :
                      IsLinked(Node(fr.right[j])) => Flattens(fr.right[j])
              ELSE IsLinked(Node(fr.p)) => Flattens(fr.p)

\* the two resolutions of the linked arm find the entry and return Ok
ResolutionsSucceed ==
    \A s \in InsertSlots :
        LET t == s[1]
            fr == stack[s[1]][s[2]]
        IN  fr.pc \in {"after_l", "after_r"} =>
               IF s[2] = Len(stack[t])
               THEN ret[t].ok /\ ret[t].errs = <<>>
               ELSE /\ s[2] + 1 = Len(stack[t])
                    /\ stack[t][s[2] + 1].fn = "validate_linked_field_selections"
                    /\ stack[t][s[2] + 1].pc \in {"get", "hit"}
                    /\ PointerAddress(stack[t][s[2] + 1].p) \in DOMAIN fields_cache

\* a call of validate_and_insert_field_selection returns all the errors it
\* has collected, and never from the middle of the linked arm
InsertReturnStep ==
    \A t \in DOMAIN stack :
        (/\ status[t] = "running" /\ stack[t] # <<>>
         /\ Top(t).fn = "validate_and_insert_field_selection"
         /\ stack'[t] = Below(t)) =>
            /\ Top(t).pc = "scan"
            /\ ret'[t].errs = Top(t).errs

\* C20: every linked field that is in a list of fields, or is given to
\* validate_and_insert_field_selection, has selections that flatten without
\* error (and has its list in fields_cache); so the two resolutions of the
\* linked arm always return Ok, the call never returns from there, and what
\* it returns is all the errors it has collected.
ComparedLinkedFieldsFlatten ==
    /\ []LinkedEntriesFlatten
    /\ []ResolutionsSucceed
    /\ [][InsertReturnStep]_vars
    /\ []((out.returned /\ prog \in LinkedTriplePrograms) =>
            out.errs = <<AliasFor(prog.operations[1][1], prog.operations[1][3])>>)

\* a call that holds an error from an earlier entry has resolved the child
\* list of a later entry of the same response key
ResolvedAfterErrorWitness ==
    \E t \in DOMAIN stack :
        /\ At(t, "validate_and_insert_field_selection", {"after_l"})
        /\ Top(t).i = 2
        /\ Top(t).errs # <<>>
        /\ ret[t].ok

====
